---------------------------- MODULE Spec2Model ----------------------------
(***************************************************************************)
(* Model of the OpenProvider -> EdgeDNS migration program.                 *)
(*                                                                         *)
(*   src/lookup_zones.py  OpenProvider.get_zone: the paginated listing of *)
(*                        zone names or of one zone's records.            *)
(*   src/__main__.py      the module-level driver: the zone loop, the     *)
(*                        per-record acceptance and aggregation into      *)
(*                        DnsRecord objects, and the creation loop.       *)
(*                                                                         *)
(* Strings that the program only formats or compares (zone names, record   *)
(* names, record types) are TLA+ strings.  Record values, which the        *)
(* program measures (len) and parses (split, int), are sequences of        *)
(* one-character strings.                                                  *)
(***************************************************************************)
EXTENDS Integers, Sequences, FiniteSets, TLC

(***************************************************************************)
(* Program constants.                                                      *)
(***************************************************************************)
TTL == 3600

LIMIT == 255

PAGE_LIMIT == 500

(***************************************************************************)
(* Bounds of the model.                                                    *)
(***************************************************************************)
\* the longest zone_list the driver is run with
MaxZones == 2

\* the number of records the source API holds over all zones of one run
MaxRecords == 2

\* the largest data.total of the endpoint listed in SpecListing
MaxTotal == 1001

\* the number of items held by the endpoint listed in SpecShort
MaxHeld == 3

\* the number of page requests of one run
MaxRequests == 4

(***************************************************************************)
(* Python's None.  Priorities of DNS records are naturals, so -1 is free.  *)
(***************************************************************************)
None == -1

\* get_zone(zone=None): "if zone:" is false for None and for ''
NoZone == ""

Range(s) == {s[i] : i \in 1..Len(s)}

Min(a, b) == IF a < b THEN a ELSE b

\* c * n : the string made of n copies of the character c
Rep(c, n) == [i \in 1..n |-> c]

(***************************************************************************)
(* str.split() : the maximal runs of non-whitespace characters.            *)
(***************************************************************************)
IsSpace(c) == c \in {" ", "\t", "\n", "\r"}

RECURSIVE SplitFrom(_, _, _)
SplitFrom(s, i, tok) ==
    IF i > Len(s)
    THEN IF tok = <<>> THEN <<>> ELSE <<tok>>
    ELSE IF IsSpace(s[i])
         THEN IF tok = <<>>
              THEN SplitFrom(s, i + 1, <<>>)
              ELSE <<tok>> \o SplitFrom(s, i + 1, <<>>)
         ELSE SplitFrom(s, i + 1, Append(tok, s[i]))

Split(s) == SplitFrom(s, 1, <<>>)

(***************************************************************************)
(* int(token) for a token of decimal digits.  The tokens of the values    *)
(* listed below are decimal numbers or hold a letter or a dot, for which  *)
(* int() raises ValueError.                                                *)
(***************************************************************************)
Digits == <<"0", "1", "2", "3", "4", "5", "6", "7", "8", "9">>

IsInt(tok) == tok # <<>> /\ \A i \in 1..Len(tok) : tok[i] \in Range(Digits)

DigitVal(c) == (CHOOSE d \in 1..10 : Digits[d] = c) - 1

RECURSIVE ToInt(_)
ToInt(tok) ==
    IF tok = <<>> THEN 0
    ELSE 10 * ToInt(SubSeq(tok, 1, Len(tok) - 1)) + DigitVal(tok[Len(tok)])

VARIABLES
    \* ---- the source API (the server side of requests.Session.get)
    source,             \* url |-> the items the endpoint holds
    reported,           \* url |-> the data.total the endpoint reports
    page_cap,           \* the most items the server puts in one page
    requests,           \* the page requests issued so far: url, offset, result.ok
    \* ---- OpenProvider.get_zone
    zone,               \* the zone argument (the driver's loop variable)
    records_retrieved,
    total_records,
    gz_zones,           \* get_zone's local all_zones
    gz_records,         \* get_zone's local all_records
    offset,             \* query_params["offset"]
    ret,                \* the value get_zone returned
    \* ---- __main__
    zone_list,
    zi,                 \* position of "for zone in zone_list"
    all_records,
    ri,                 \* position of "for record in all_records"
    pulumi_zone,
    resource_list,      \* the dict, as its values in insertion order
    missed_records,
    ci,                 \* position of "for resource in resource_list"
    calls,              \* the akamai.DnsZone / akamai.DnsRecord requests issued
    warnings,           \* the pulumi.warn messages
    pc

clientVars == <<zone, records_retrieved, total_records, gz_zones, gz_records,
                offset, ret>>

driverVars == <<zone_list, zi, all_records, ri, pulumi_zone, resource_list,
                missed_records, ci, calls, warnings>>

serverVars == <<source, reported, page_cap>>

vars == <<serverVars, requests, clientVars, driverVars, pc>>

(***************************************************************************)
(* The source API: a page of at most limit items (and at most page_cap of  *)
(* them) starting after offset, and the constant total the endpoint        *)
(* reports.                                                                *)
(***************************************************************************)
Url(z) == z

Total(url) == reported[url]

Page(url, off, limit) ==
    SubSeq(source[url], off + 1,
           Min(off + Min(limit, page_cap), Len(source[url])))

ZoneNamesOf(results) == [i \in 1..Len(results) |-> results[i].name]

(***************************************************************************)
(* OpenProvider.get_zone                                                   *)
(***************************************************************************)
\* the statements before the while loop
GetZoneEnter(z) ==
    /\ zone' = z
    /\ records_retrieved' = 0
    /\ gz_zones' = <<>>
    /\ gz_records' = <<>>
    /\ offset' = 0
    /\ total_records' = 1
    /\ ret' = <<>>
    /\ pc' = "fetching"

\* a slip: the offset is never advanced
NextOffsetStuck(retrieved) == 0

\* query_params["offset"] = records_retrieved
NextOffset(retrieved) == retrieved

\* one iteration of the while loop with result.ok
GetZonePage ==
    /\ pc = "fetching"
    /\ records_retrieved < total_records
    /\ Len(requests) < MaxRequests
    /\ requests' = Append(requests, [url |-> Url(zone), offset |-> offset, ok |-> TRUE])
    /\ LET results == Page(Url(zone), offset, PAGE_LIMIT)
           total == IF total_records = 1 THEN Total(Url(zone)) ELSE total_records
       IN /\ total_records' = total
          /\ IF zone # NoZone /\ total > 0
             THEN /\ gz_records' = gz_records \o results
                  /\ records_retrieved' = Len(gz_records')
                  /\ offset' = NextOffset(records_retrieved')
                  /\ UNCHANGED <<gz_zones, ret, pc>>
             ELSE IF total > 0
             THEN /\ gz_zones' = gz_zones \o ZoneNamesOf(results)
                  /\ records_retrieved' = Len(gz_zones')
                  /\ offset' = NextOffset(records_retrieved')
                  /\ UNCHANGED <<gz_records, ret, pc>>
             ELSE /\ ret' = gz_zones
                  /\ pc' = "returned"
                  /\ UNCHANGED <<gz_zones, gz_records, records_retrieved, offset>>
    /\ UNCHANGED <<serverVars, zone, driverVars>>

\* a slip: the error is swallowed and what was fetched so far is returned
GetZoneFailPartial ==
    /\ pc = "fetching"
    /\ records_retrieved < total_records
    /\ Len(requests) < MaxRequests
    /\ requests' = Append(requests, [url |-> Url(zone), offset |-> offset, ok |-> FALSE])
    /\ ret' = IF zone # NoZone THEN gz_records ELSE gz_zones
    /\ pc' = "returned"
    /\ UNCHANGED <<serverVars, zone, records_retrieved, total_records, gz_zones,
                   gz_records, offset, driverVars>>

\* one iteration of the while loop with a non-success response
GetZoneFail ==
    /\ pc = "fetching"
    /\ records_retrieved < total_records
    /\ Len(requests) < MaxRequests
    /\ requests' = Append(requests, [url |-> Url(zone), offset |-> offset, ok |-> FALSE])
    /\ pc' = "raised"
    /\ UNCHANGED <<serverVars, clientVars, driverVars>>

\* the loop condition is false: return all_records or all_zones
GetZoneReturn ==
    /\ pc = "fetching"
    /\ ~(records_retrieved < total_records)
    /\ ret' = IF zone # NoZone THEN gz_records ELSE gz_zones
    /\ pc' = "returned"
    /\ UNCHANGED <<serverVars, requests, zone, records_retrieved, total_records,
                   gz_zones, gz_records, offset, driverVars>>

(***************************************************************************)
(* DnsRecord                                                               *)
(***************************************************************************)
Supported == {"A", "CNAME", "TXT", "MX", "SRV", "AAAA", "CAA", "AKAMAICDN", "NS"}

\* "{}".format(record.get("prio", ""))
PrioText(record) ==
    IF "prio" \in DOMAIN record THEN ToString(record.prio) ELSE ""

\* "{}-{}{}".format(record["name"], record["type"], prio)
ResourceName(record) == record.name \o "-" \o record.type \o PrioText(record)

\* a slip: a ttl of 0 is taken for a missing ttl
NewDnsRecordZeroDefault(resource_name, handle, record) ==
    [resource_name |-> resource_name,
     name          |-> record.name,
     type          |-> record.type,
     targets       |-> <<record.value>>,
     ttl           |-> IF "ttl" \in DOMAIN record /\ record.ttl # 0
                       THEN record.ttl ELSE TTL,
     zone          |-> handle,
     prio          |-> IF "prio" \in DOMAIN record THEN record.prio ELSE None]

\* DnsRecord.__init__
NewDnsRecord(resource_name, handle, record) ==
    [resource_name |-> resource_name,
     name          |-> record.name,
     type          |-> record.type,
     targets       |-> <<record.value>>,
     ttl           |-> IF "ttl" \in DOMAIN record THEN record.ttl ELSE TTL,
     zone          |-> handle,
     prio          |-> IF "prio" \in DOMAIN record THEN record.prio ELSE None]

\* a slip: the new target is put in front
AppendTargetFront(dns, value) == [dns EXCEPT !.targets = <<value>> \o @]

\* DnsRecord.append_target
AppendTarget(dns, value) == [dns EXCEPT !.targets = Append(@, value)]

\* DnsRecord.create_record raises: srv_record[i] is missing (IndexError) or
\* int() is given something that is not a number (ValueError)
CreateRecordRaises(dns) ==
    /\ dns.type = "SRV"
    /\ LET srv_record == Split(dns.targets[1])
       IN \/ Len(srv_record) < 3
          \/ ~IsInt(srv_record[1])
          \/ ~IsInt(srv_record[2])

\* a slip: weight and port read from each other's token
CreateRecordRequestSwapped(dns) ==
    IF dns.type \notin {"SRV", "MX"}
    THEN [resource_name |-> dns.resource_name,
          recordtype    |-> dns.type,
          ttl           |-> dns.ttl,
          zone          |-> dns.zone.zone,
          name          |-> dns.name,
          targets       |-> dns.targets]
    ELSE IF dns.type = "SRV"
    THEN LET srv_record == Split(dns.targets[1])
         IN [resource_name |-> dns.resource_name,
             recordtype    |-> dns.type,
             ttl           |-> dns.ttl,
             zone          |-> dns.zone.zone,
             name          |-> dns.name,
             priority      |-> dns.prio,
             weight        |-> ToInt(srv_record[2]),
             port          |-> ToInt(srv_record[1]),
             targets       |-> Split(srv_record[3])]
    ELSE [resource_name |-> dns.resource_name,
          recordtype    |-> dns.type,
          ttl           |-> dns.ttl,
          zone          |-> dns.zone.zone,
          name          |-> dns.name,
          targets       |-> dns.targets,
          priority      |-> dns.prio]

\* DnsRecord.create_record: the akamai.DnsRecord request
CreateRecordRequest(dns) ==
    IF dns.type \notin {"SRV", "MX"}
    THEN [resource_name |-> dns.resource_name,
          recordtype    |-> dns.type,
          ttl           |-> dns.ttl,
          zone          |-> dns.zone.zone,
          name          |-> dns.name,
          targets       |-> dns.targets]
    ELSE IF dns.type = "SRV"
    THEN LET srv_record == Split(dns.targets[1])
         IN [resource_name |-> dns.resource_name,
             recordtype    |-> dns.type,
             ttl           |-> dns.ttl,
             zone          |-> dns.zone.zone,
             name          |-> dns.name,
             priority      |-> dns.prio,
             weight        |-> ToInt(srv_record[1]),
             port          |-> ToInt(srv_record[2]),
             targets       |-> Split(srv_record[3])]
    ELSE [resource_name |-> dns.resource_name,
          recordtype    |-> dns.type,
          ttl           |-> dns.ttl,
          zone          |-> dns.zone.zone,
          name          |-> dns.name,
          targets       |-> dns.targets,
          priority      |-> dns.prio]

\* create_zone: the akamai.DnsZone request
CreateZoneRequest(z) ==
    [resource_name |-> z, comment |-> "managed by pulumi", sign_and_serve |-> FALSE,
     type |-> "primary", zone |-> z]

\* a slip: every zone gets the handle of the first zone of zone_list
ZoneHandleFirst(z) == [zone |-> zone_list[1]]

\* the handle create_zone returns; its .zone is the zone's name
ZoneHandle(z) == [zone |-> z]

(***************************************************************************)
(* resource_list: a dict keyed by resource_name, kept as the sequence of   *)
(* its values in insertion order (the order "for resource in               *)
(* resource_list" visits them).                                            *)
(***************************************************************************)
Keys(d) == {d[i].resource_name : i \in 1..Len(d)}

IndexOf(d, k) == CHOOSE i \in 1..Len(d) : d[i].resource_name = k

(***************************************************************************)
(* __main__ : the zone loop                                                *)
(***************************************************************************)
\* for zone in zone_list: all_records = op.get_zone(zone)   (the call)
NextZone ==
    /\ pc = "zone_loop"
    /\ zi <= Len(zone_list)
    /\ GetZoneEnter(zone_list[zi])
    /\ UNCHANGED <<serverVars, requests, driverVars>>

\* a slip: >= for >
HasRecordsAlways(records) == Len(records) >= 0

\* if len(all_records) > 0
HasRecords(records) == Len(records) > 0

\* get_zone returned records: create the zone, enter the record loop
CreateZone ==
    /\ pc = "returned"
    /\ HasRecords(ret)
    /\ all_records' = ret
    /\ pulumi_zone' = ZoneHandle(zone)
    /\ calls' = Append(calls, [kind |-> "DnsZone", args |-> CreateZoneRequest(zone)])
    /\ ri' = 1
    /\ pc' = "record_loop"
    /\ UNCHANGED <<serverVars, requests, clientVars, zone_list, zi, resource_list,
                   missed_records, ci, warnings>>

\* get_zone returned nothing: warn, next zone
EmptyZone ==
    /\ pc = "returned"
    /\ ~HasRecords(ret)
    /\ all_records' = ret
    /\ warnings' = Append(warnings, "no records found to migrate")
    /\ zi' = zi + 1
    /\ pc' = "zone_loop"
    /\ UNCHANGED <<serverVars, requests, clientVars, zone_list, ri, pulumi_zone,
                   resource_list, missed_records, ci, calls>>

\* record["type"] == "NS" and record["name"] == zone
IsApexNs(record, z) == record.type = "NS" /\ record.name = z

IsAccepted(record) == record.type \in Supported /\ Len(record.value) < LIMIT

IsTooLong(record) == Len(record.value) > LIMIT

\* if record["type"] == "NS" and record["name"] == zone: break
ApexNsBreak ==
    /\ pc = "record_loop"
    /\ ri <= Len(all_records)
    /\ IsApexNs(all_records[ri], zone)
    /\ zi' = zi + 1
    /\ pc' = "zone_loop"
    /\ UNCHANGED <<serverVars, requests, clientVars, zone_list, all_records, ri,
                   pulumi_zone, resource_list, missed_records, ci, calls, warnings>>

\* the record passes the type and length test: merge it or create its resource
IngestRecord ==
    /\ pc = "record_loop"
    /\ ri <= Len(all_records)
    /\ LET record == all_records[ri]
           resource_name == ResourceName(record)
       IN /\ ~IsApexNs(record, zone)
          /\ IsAccepted(record)
          /\ resource_list' =
                IF resource_name \in Keys(resource_list)
                THEN [resource_list EXCEPT ![IndexOf(resource_list, resource_name)] =
                          AppendTarget(@, record.value)]
                ELSE Append(resource_list,
                            NewDnsRecord(resource_name, pulumi_zone, record))
    /\ ri' = ri + 1
    /\ UNCHANGED <<serverVars, requests, clientVars, zone_list, zi, all_records,
                   pulumi_zone, missed_records, ci, calls, warnings, pc>>

\* elif len(record["value"]) > LIMIT: missed_records.append(record); warn
MissRecord ==
    /\ pc = "record_loop"
    /\ ri <= Len(all_records)
    /\ LET record == all_records[ri]
       IN /\ ~IsApexNs(record, zone)
          /\ ~IsAccepted(record)
          /\ IsTooLong(record)
          /\ missed_records' = Append(missed_records, record)
          /\ warnings' = Append(warnings,
                "record too long for API: " \o record.name \o " " \o record.type)
    /\ ri' = ri + 1
    /\ UNCHANGED <<serverVars, requests, clientVars, zone_list, zi, all_records,
                   pulumi_zone, resource_list, ci, calls, pc>>

\* neither branch is taken: the loop moves on
SkipRecord ==
    /\ pc = "record_loop"
    /\ ri <= Len(all_records)
    /\ LET record == all_records[ri]
       IN /\ ~IsApexNs(record, zone)
          /\ ~IsAccepted(record)
          /\ ~IsTooLong(record)
    /\ ri' = ri + 1
    /\ UNCHANGED <<serverVars, requests, clientVars, zone_list, zi, all_records,
                   pulumi_zone, resource_list, missed_records, ci, calls,
                   warnings, pc>>

\* "for record in all_records" is exhausted
RecordsDone ==
    /\ pc = "record_loop"
    /\ ri > Len(all_records)
    /\ zi' = zi + 1
    /\ pc' = "zone_loop"
    /\ UNCHANGED <<serverVars, requests, clientVars, zone_list, all_records, ri,
                   pulumi_zone, resource_list, missed_records, ci, calls, warnings>>

(***************************************************************************)
(* __main__ : the creation loop and the export                             *)
(***************************************************************************)
\* "for zone in zone_list" is exhausted
ZonesDone ==
    /\ pc = "zone_loop"
    /\ zi > Len(zone_list)
    /\ ci' = 1
    /\ pc' = "create_loop"
    /\ UNCHANGED <<serverVars, requests, clientVars, zone_list, zi, all_records, ri,
                   pulumi_zone, resource_list, missed_records, calls, warnings>>

\* resource_list[resource].create_record()
CreateRecord ==
    /\ pc = "create_loop"
    /\ ci <= Len(resource_list)
    /\ ~CreateRecordRaises(resource_list[ci])
    /\ calls' = Append(calls, [kind |-> "DnsRecord",
                               args |-> CreateRecordRequest(resource_list[ci])])
    /\ ci' = ci + 1
    /\ UNCHANGED <<serverVars, requests, clientVars, zone_list, zi, all_records, ri,
                   pulumi_zone, resource_list, missed_records, warnings, pc>>

\* create_record() raises on an SRV value it cannot decode
CreateRecordFail ==
    /\ pc = "create_loop"
    /\ ci <= Len(resource_list)
    /\ CreateRecordRaises(resource_list[ci])
    /\ pc' = "raised"
    /\ UNCHANGED <<serverVars, requests, clientVars, driverVars>>

\* pulumi.export("missed_records", missed_records)
Export ==
    /\ pc = "create_loop"
    /\ ci > Len(resource_list)
    /\ pc' = "done"
    /\ UNCHANGED <<serverVars, requests, clientVars, driverVars>>

(***************************************************************************)
(* The inputs of a run: the configured zone_list and what the source API   *)
(* holds for each of its zones.                                            *)
(***************************************************************************)
ZoneNames == {"example.com", "sub.example.com", "example.org"}

Ns1 == <<"n", "s", "1", ".", "n", "l">>

Addr1 == <<"1", "0", ".", "0", ".", "0", ".", "1">>

Addr2 == <<"1", "0", ".", "0", ".", "0", ".", "2">>

Mail1 == <<"m", "x", "1", ".", "n", "l">>

Mail2 == <<"m", "x", "2", ".", "n", "l">>

SrvFull == <<"1", " ", "4", "4", "3", " ", "s", "i", "p", "d", "i", "r", ".", "o", "n", "l", "i", "n", "e", ".", "l", "y", "n", "c", ".", "c", "o", "m">>

SrvShort == <<"0", " ", "5", "0", "6", "1">>

SoaValue == <<"n", "s", "1", ".", "n", "l", " ", "a", "d", "m", "i", "n", ".", "n", "l", " ", "1">>

Universe ==
    { [name |-> "example.com", type |-> "NS", value |-> Ns1, ttl |-> 3600],
      [name |-> "sub.example.com", type |-> "NS", value |-> Ns1, ttl |-> 3600],
      [name |-> "www.sub.example.com", type |-> "A", value |-> Addr1, ttl |-> 300],
      [name |-> "www.sub.example.com", type |-> "A", value |-> Addr2],
      [name |-> "example.com", type |-> "MX", value |-> Mail1, prio |-> 10, ttl |-> 3600],
      [name |-> "example.com", type |-> "MX", value |-> Mail2, prio |-> 10, ttl |-> 0],
      [name |-> "example.com", type |-> "MX", value |-> Mail1, ttl |-> 3600],
      [name |-> "_sip._tls.example.com", type |-> "SRV", value |-> SrvFull,
       prio |-> 100, ttl |-> 3600],
      [name |-> "_sip._tls.example.com", type |-> "SRV", value |-> SrvShort,
       prio |-> 100, ttl |-> 3600],
      [name |-> "example.com", type |-> "SOA", value |-> SoaValue, ttl |-> 3600] }
    \cup { [name |-> "example.com", type |-> "TXT", value |-> Rep("x", n), ttl |-> 3600] :
             n \in {LIMIT, LIMIT + 1} }

SeqsUpTo(S, n) == UNION {[1..k -> S] : k \in 0..n}

DistinctSeqs(S, n) ==
    {s \in SeqsUpTo(S, n) : \A i, j \in 1..Len(s) : i # j => s[i] # s[j]}

\* the listings of the zones of zl: the sequence held cut into one piece per zone
Cuts(zl, held) ==
    {c \in [0..Len(zl) -> 0..Len(held)] :
        /\ c[0] = 0
        /\ c[Len(zl)] = Len(held)
        /\ \A j \in 1..Len(zl) : c[j - 1] <= c[j]}

Init ==
    /\ zone_list \in DistinctSeqs(ZoneNames, MaxZones)
    /\ \E held \in SeqsUpTo(Universe, MaxRecords) :
          \E c \in Cuts(zone_list, held) :
             source = [u \in {Url(zone_list[j]) : j \in 1..Len(zone_list)} |->
                         LET j == CHOOSE k \in 1..Len(zone_list) : Url(zone_list[k]) = u
                         IN SubSeq(held, c[j - 1] + 1, c[j])]
    /\ reported = [u \in DOMAIN source |-> Len(source[u])]
    /\ page_cap = PAGE_LIMIT
    /\ requests = <<>>
    /\ zone = NoZone
    /\ records_retrieved = 0
    /\ total_records = 1
    /\ gz_zones = <<>>
    /\ gz_records = <<>>
    /\ offset = 0
    /\ ret = <<>>
    /\ zi = 1
    /\ all_records = <<>>
    /\ ri = 1
    /\ pulumi_zone = [zone |-> NoZone]
    /\ resource_list = <<>>
    /\ missed_records = <<>>
    /\ ci = 1
    /\ calls = <<>>
    /\ warnings = <<>>
    /\ pc = "zone_loop"

Next ==
    \/ NextZone
    \/ GetZonePage
    \/ GetZoneFail
    \/ GetZoneReturn
    \/ CreateZone
    \/ EmptyZone
    \/ ApexNsBreak
    \/ IngestRecord
    \/ MissRecord
    \/ SkipRecord
    \/ RecordsDone
    \/ ZonesDone
    \/ CreateRecord
    \/ CreateRecordFail
    \/ Export

Spec == Init /\ [][Next]_vars

(***************************************************************************)
(* One listing call against an endpoint of T items: get_zone() for the     *)
(* zone names, get_zone(zone) for the records of a zone.                   *)
(***************************************************************************)
Item(i) == [name |-> ToString(i)]

ListedZone == "example.com"

\* the state of a call of get_zone at its while loop, outside a run of __main__
CallEntered ==
    /\ requests = <<>>
    /\ records_retrieved = 0
    /\ gz_zones = <<>>
    /\ gz_records = <<>>
    /\ offset = 0
    /\ total_records = 1
    /\ ret = <<>>
    /\ pc = "fetching"
    /\ zone_list = <<>>
    /\ zi = 1
    /\ all_records = <<>>
    /\ ri = 1
    /\ pulumi_zone = [zone |-> NoZone]
    /\ resource_list = <<>>
    /\ missed_records = <<>>
    /\ ci = 1
    /\ calls = <<>>
    /\ warnings = <<>>

InitListing ==
    /\ \E T \in 0..MaxTotal, z \in {NoZone, ListedZone} :
          /\ source = (Url(z) :> [i \in 1..T |-> Item(i)])
          /\ reported = (Url(z) :> T)
          /\ zone = z
    /\ page_cap = PAGE_LIMIT
    /\ CallEntered

NextListing == GetZonePage \/ GetZoneFail \/ GetZoneReturn

SpecListing == InitListing /\ [][NextListing]_vars

(***************************************************************************)
(* One listing call against an endpoint that need not serve what it        *)
(* reports: it holds up to MaxHeld items, reports a total that may be      *)
(* more or less than it holds, and may cut its pages shorter than the      *)
(* limit asked for.                                                        *)
(***************************************************************************)
ServerCaps == {1, 2, PAGE_LIMIT}

InitShort ==
    /\ \E H \in 0..MaxHeld, T \in 0..(MaxHeld + 1), z \in {NoZone, ListedZone} :
          /\ source = (Url(z) :> [i \in 1..H |-> Item(i)])
          /\ reported = (Url(z) :> T)
          /\ zone = z
    /\ page_cap \in ServerCaps
    /\ CallEntered

SpecShort == InitShort /\ [][NextListing]_vars

(***************************************************************************)
(* Vocabulary of the properties.                                           *)
(***************************************************************************)
Listing(z) == source[Url(z)]

Zones == Range(zone_list)

RecordCalls == {i \in 1..Len(calls) : calls[i].kind = "DnsRecord"}

ZoneCalls == {i \in 1..Len(calls) : calls[i].kind = "DnsZone"}

Resource(resource_name) == resource_list[IndexOf(resource_list, resource_name)]

\* the record at position i of zone z's listing is visited by the record loop
Reached(z, i) == \A j \in 1..(i - 1) : ~IsApexNs(Listing(z)[j], z)

\* the positions of zone z's listing whose record is merged into a resource
AcceptedAt(z) ==
    {i \in 1..Len(Listing(z)) :
        /\ Reached(z, i)
        /\ ~IsApexNs(Listing(z)[i], z)
        /\ IsAccepted(Listing(z)[i])}

PrioOf(record) == IF "prio" \in DOMAIN record THEN record.prio ELSE None

SameKey(r, q) == r.name = q.name /\ r.type = q.type /\ PrioOf(r) = PrioOf(q)

RECURSIVE ValuesFrom(_, _, _)
\* the values of the accepted records of zone z that share r's key, from
\* position i on, in listing order
ValuesFrom(z, r, i) ==
    IF i > Len(Listing(z)) THEN <<>>
    ELSE (IF i \in AcceptedAt(z) /\ SameKey(Listing(z)[i], r)
          THEN <<Listing(z)[i].value>> ELSE <<>>) \o ValuesFrom(z, r, i + 1)

\* record r contributed its value to the resource of its name
Contributed(r) ==
    \E i \in 1..Len(resource_list) :
        /\ resource_list[i].resource_name = ResourceName(r)
        /\ r.value \in Range(resource_list[i].targets)

(***************************************************************************)
(* C1.  When the run is done, every aggregation key (zone, name, type,     *)
(* priority-or-empty) of an accepted record has exactly one resource: one  *)
(* that holds that zone's handle and that name, type and priority, and its *)
(* targets are the values of the accepted records of that key, one each,   *)
(* in listing order.                                                       *)
(***************************************************************************)
C1_OneResourcePerKey ==
    pc = "done" =>
        \A z \in Zones : \A i \in AcceptedAt(z) :
            LET r == Listing(z)[i]
                ds == {k \in 1..Len(resource_list) :
                          /\ resource_list[k].zone.zone = z
                          /\ resource_list[k].name = r.name
                          /\ resource_list[k].type = r.type
                          /\ resource_list[k].prio = PrioOf(r)}
            IN /\ Cardinality(ds) = 1
               /\ \A k \in ds : resource_list[k].targets = ValuesFrom(z, r, 1)

(***************************************************************************)
(* C2.  When the run is done, every record of every zone's listing has     *)
(* either contributed a target to the resource of its key or is in         *)
(* missed_records.                                                         *)
(***************************************************************************)
C2_NoSilentDrop ==
    pc = "done" =>
        \A z \in Zones : \A i \in 1..Len(Listing(z)) :
            \/ Contributed(Listing(z)[i])
            \/ Listing(z)[i] \in Range(missed_records)

(***************************************************************************)
(* C3.  When the run is done, no resource of a zone is an NS resource      *)
(* named as the zone (the apex NS record is rejected), and every NS record *)
(* of a listing whose name differs from its zone and whose value is        *)
(* shorter than LIMIT has contributed its value to a resource, wherever it *)
(* stands in the listing.                                                  *)
(***************************************************************************)
C3_NsRule ==
    pc = "done" =>
        \A z \in Zones :
            /\ \A k \in 1..Len(resource_list) :
                  ~(/\ resource_list[k].zone.zone = z
                    /\ resource_list[k].type = "NS"
                    /\ resource_list[k].name = z)
            /\ \A i \in 1..Len(Listing(z)) :
                  LET r == Listing(z)[i]
                  IN (r.type = "NS" /\ r.name # z /\ Len(r.value) < LIMIT)
                        => Contributed(r)

(***************************************************************************)
(* C4.  When the run is done, every record of a listing whose value has    *)
(* LIMIT characters or more is in missed_records and its value is among    *)
(* the targets of no resource.                                             *)
(***************************************************************************)
C4_TooLongRejected ==
    pc = "done" =>
        \A z \in Zones : \A i \in 1..Len(Listing(z)) :
            LET r == Listing(z)[i]
            IN Len(r.value) >= LIMIT =>
                  /\ r \in Range(missed_records)
                  /\ \A k \in 1..Len(resource_list) :
                        r.value \notin Range(resource_list[k].targets)

(***************************************************************************)
(* C5.  A listing call that returns has issued ceil(T/500) page requests,  *)
(* at the offsets 0, 500, ..., and returns the T items of the endpoint     *)
(* (their names, when the zones are listed); for T = 0 it has issued one   *)
(* request and returns the empty sequence.                                 *)
(***************************************************************************)
C5_Pagination ==
    pc = "returned" =>
        LET T == Total(Url(zone))
            pages == IF T = 0 THEN 1 ELSE (T + PAGE_LIMIT - 1) \div PAGE_LIMIT
        IN /\ Len(requests) = pages
           /\ \A i \in 1..Len(requests) :
                 /\ requests[i].url = Url(zone)
                 /\ requests[i].offset = (i - 1) * PAGE_LIMIT
           /\ Len(ret) = T
           /\ ret = IF zone # NoZone THEN source[Url(zone)]
                    ELSE ZoneNamesOf(source[Url(zone)])

\* total = 750: two requests, 750 items
C5_Witness ==
    /\ pc = "returned"
    /\ Total(Url(zone)) = 750
    /\ Len(requests) = 2
    /\ Len(ret) = 750

(***************************************************************************)
(* C6.  When get_zone raises for a zone, every later zone of zone_list     *)
(* that has records is still processed: its zone-creation request is       *)
(* issued.                                                                 *)
(***************************************************************************)
C6_FailureSkipsOnlyThatZone ==
    (pc = "raised" /\ zi <= Len(zone_list)) =>
        \A k \in (zi + 1)..Len(zone_list) :
            Len(Listing(zone_list[k])) > 0 =>
                \E i \in ZoneCalls : calls[i].args.zone = zone_list[k]

(***************************************************************************)
(* C7.  Every SRV record-creation request whose resource's first-seen      *)
(* value is three whitespace-separated tokens "weight port target" carries *)
(* the priority of the record that created the resource, weight = the      *)
(* first token as an integer, port = the second token as an integer and    *)
(* targets = [the third token]; "1 443 sipdir.online.lync.com" with        *)
(* priority 100 gives priority 100, weight 1, port 443 and targets         *)
(* ["sipdir.online.lync.com"].                                             *)
(***************************************************************************)
SipdirTarget == <<"s", "i", "p", "d", "i", "r", ".", "o", "n", "l", "i", "n", "e", ".", "l", "y", "n", "c", ".", "c", "o", "m">>

C7_SrvDecoding ==
    \A i \in RecordCalls :
        LET a == calls[i].args
            first == Resource(a.resource_name).targets[1]
            tok == Split(first)
        IN (a.recordtype = "SRV" /\ Len(tok) = 3) =>
              /\ \E r \in Range(Listing(a.zone)) :
                    /\ ResourceName(r) = a.resource_name
                    /\ r.value = first
                    /\ a.priority = PrioOf(r)
              /\ a.weight = ToInt(tok[1])
              /\ a.port = ToInt(tok[2])
              /\ a.targets = <<tok[3]>>
              /\ first = SrvFull =>
                    /\ a.weight = 1
                    /\ a.port = 443
                    /\ a.targets = <<SipdirTarget>>
                    /\ (\E r \in Range(Listing(a.zone)) :
                           r.value = SrvFull /\ PrioOf(r) = 100) => a.priority = 100

\* the example of the claim has been submitted
C7_Witness ==
    \E i \in RecordCalls :
        /\ calls[i].args.recordtype = "SRV"
        /\ Resource(calls[i].args.resource_name).targets[1] = SrvFull
        /\ calls[i].args.priority = 100
        /\ calls[i].args.weight = 1
        /\ calls[i].args.port = 443

EmptyZones(n) == {k \in 1..n : Len(Listing(zone_list[k])) = 0}

C9_EmptyZoneSkipped ==
    /\ \A k \in EmptyZones(Len(zone_list)) :
          /\ \A i \in 1..Len(calls) : calls[i].args.zone # zone_list[k]
          /\ (zi > k /\ k < Len(zone_list)) =>
                \/ zi = k + 1 /\ pc \in {"zone_loop", "fetching"}
                \/ \E i \in 1..Len(requests) :
                       requests[i].url = Url(zone_list[k + 1])
          /\ pc = "done" =>
                \A m \in (k + 1)..Len(zone_list) :
                    Len(Listing(zone_list[m])) > 0 =>
                        \E i \in ZoneCalls : calls[i].args.zone = zone_list[m]
    /\ Cardinality({w \in 1..Len(warnings) :
                       warnings[w] = "no records found to migrate"})
          = Cardinality(EmptyZones(Min(zi - 1, Len(zone_list))))

\* an empty zone was skipped and the zone after it was created
C9_Witness ==
    /\ pc = "done"
    /\ Len(zone_list) = 2
    /\ Len(Listing(zone_list[1])) = 0
    /\ warnings = <<"no records found to migrate">>
    /\ \E i \in ZoneCalls : calls[i].args.zone = zone_list[2]
    /\ RecordCalls # {}

(***************************************************************************)
(* C10.  Every record-creation request is issued after the zone-creation   *)
(* request of the zone whose handle it carries, and that zone is the one   *)
(* whose listing holds the record the resource was created from.           *)
(***************************************************************************)
C10_ZoneBeforeRecords ==
    \A i \in RecordCalls :
        LET a == calls[i].args
        IN /\ \E j \in ZoneCalls : j < i /\ calls[j].args.zone = a.zone
           /\ a.zone \in Zones
           /\ \E r \in Range(Listing(a.zone)) :
                 /\ ResourceName(r) = a.resource_name
                 /\ r.value = Resource(a.resource_name).targets[1]

\* records of two zones were submitted, each with its own zone's handle
C10_Witness ==
    /\ Len(zone_list) = 2
    /\ \E i, j \in RecordCalls :
          /\ calls[i].args.zone = zone_list[1]
          /\ calls[j].args.zone = zone_list[2]

(***************************************************************************)
(* C11.  The targets of a resource come only from accepted records of the  *)
(* zone whose handle the resource holds: each target is the value of such  *)
(* a record of the resource's key, and there are no more targets than such *)
(* records.  Records of two zones are never merged into one resource.      *)
(***************************************************************************)
OwnRecordsOf(d) ==
    {i \in AcceptedAt(d.zone.zone) :
        ResourceName(Listing(d.zone.zone)[i]) = d.resource_name}

C11_AggregationPerZone ==
    \A k \in 1..Len(resource_list) :
        LET d == resource_list[k]
        IN /\ Len(d.targets) <= Cardinality(OwnRecordsOf(d))
           /\ \A m \in 1..Len(d.targets) :
                 \E i \in OwnRecordsOf(d) :
                     Listing(d.zone.zone)[i].value = d.targets[m]

(***************************************************************************)
(* C12.  As claimed: a zone-creation request is issued only for a zone     *)
(* with at least one record that passes the acceptance filter (supported   *)
(* type, value shorter than LIMIT, not the apex NS).                       *)
(***************************************************************************)
PassesFilter(r, z) == ~IsApexNs(r, z) /\ IsAccepted(r)

C12_CreatedOnlyIfRecordsLeft ==
    \A i \in ZoneCalls :
        \E j \in 1..Len(Listing(calls[i].args.zone)) :
            PassesFilter(Listing(calls[i].args.zone)[j], calls[i].args.zone)

(***************************************************************************)
(* C12, amended.  A zone-creation request is issued only for a zone whose  *)
(* listing holds at least one record, filtered or not: once the zone loop  *)
(* has passed a zone whose listing is not empty, the zone has been         *)
(* created, also when every one of its records is rejected.                *)
(***************************************************************************)
C12_CreatedIffListed ==
    /\ \A i \in ZoneCalls : Len(Listing(calls[i].args.zone)) > 0
    /\ \A k \in 1..Min(zi - 1, Len(zone_list)) :
          Len(Listing(zone_list[k])) > 0 =>
              \E i \in ZoneCalls : calls[i].args.zone = zone_list[k]

\* a zone all of whose records are rejected has been created
C12_Witness ==
    /\ pc = "done"
    /\ \E i \in ZoneCalls :
          LET z == calls[i].args.zone
          IN /\ Len(Listing(z)) > 0
             /\ \A j \in 1..Len(Listing(z)) : ~PassesFilter(Listing(z)[j], z)

(***************************************************************************)
(* C14.  When the run is done, every record of a listing has been handled  *)
(* as its own fields say, whatever precedes it: a record of a supported    *)
(* type, shorter than LIMIT and not the apex NS has contributed its value  *)
(* to a resource, and a record longer than LIMIT that is not the apex NS   *)
(* is in missed_records.                                                   *)
(***************************************************************************)
C14_PositionIndependent ==
    pc = "done" =>
        \A z \in Zones : \A i \in 1..Len(Listing(z)) :
            LET r == Listing(z)[i]
            IN /\ PassesFilter(r, z) => Contributed(r)
               /\ (~IsApexNs(r, z) /\ ~IsAccepted(r) /\ IsTooLong(r)) =>
                     r \in Range(missed_records)

(***************************************************************************)
(* C17.  As claimed: the ttl of a resource is the ttl of the record that   *)
(* created it when that ttl is present and not zero, and TTL (3600) when   *)
(* it is absent or zero.                                                   *)
(***************************************************************************)
\* the record a resource was created from: the first accepted record of
\* its key in the listing of the zone whose handle it holds
CreatorOf(d) ==
    LET z == d.zone.zone
        first == CHOOSE i \in OwnRecordsOf(d) : \A j \in OwnRecordsOf(d) : i <= j
    IN Listing(z)[first]

C17_TtlDefaultsWhenZero ==
    \A k \in 1..Len(resource_list) :
        LET r == CreatorOf(resource_list[k])
        IN resource_list[k].ttl =
              IF "ttl" \in DOMAIN r /\ r.ttl # 0 THEN r.ttl ELSE TTL

(***************************************************************************)
(* C17, amended.  The ttl of a resource is the ttl of the record that      *)
(* created it when that ttl is present, zero included, and TTL (3600)      *)
(* when it is absent; records merged later do not change it, and the       *)
(* record-creation request carries it.                                     *)
(***************************************************************************)
C17_TtlOfCreator ==
    /\ \A k \in 1..Len(resource_list) :
          LET r == CreatorOf(resource_list[k])
          IN resource_list[k].ttl = IF "ttl" \in DOMAIN r THEN r.ttl ELSE TTL
    /\ \A i \in RecordCalls :
          calls[i].args.ttl = Resource(calls[i].args.resource_name).ttl

\* a resource created from a record of ttl 0 kept that ttl through a merge
\* of a record of another ttl and was submitted with it
C17_Witness ==
    \E i \in RecordCalls :
        LET d == Resource(calls[i].args.resource_name)
        IN /\ calls[i].args.ttl = 0
           /\ Len(d.targets) = 2
           /\ \E j \in OwnRecordsOf(d) : Listing(d.zone.zone)[j].ttl # 0

(***************************************************************************)
(* C13.  An MX record without a priority is a data error: no MX            *)
(* record-creation request is issued without a priority, and when the run  *)
(* is done every such record that the record loop visited is in            *)
(* missed_records.                                                         *)
(***************************************************************************)
C13_MxWithoutPriorityRejected ==
    /\ \A i \in RecordCalls :
          calls[i].args.recordtype = "MX" => calls[i].args.priority # None
    /\ pc = "done" =>
          \A z \in Zones : \A i \in 1..Len(Listing(z)) :
              LET r == Listing(z)[i]
              IN (r.type = "MX" /\ "prio" \notin DOMAIN r /\ Reached(z, i)) =>
                    r \in Range(missed_records)

(***************************************************************************)
(* C15.  Every page request of a listing call is at the offset of the      *)
(* number of items retrieved so far (0 first), and every page after which  *)
(* the call goes on fetching has brought it closer to the end: more items  *)
(* are retrieved than before.  The endpoint answers a request the same way *)
(* every time, so a page that leaves the call fetching with nothing more   *)
(* retrieved is requested again without end, and the call terminates if    *)
(* and only if this holds.                                                 *)
(***************************************************************************)
C15_ListingTerminates ==
    [][(pc = "fetching" /\ Len(requests') > Len(requests)) =>
          /\ requests'[Len(requests')].offset = records_retrieved
          /\ pc' = "fetching" => records_retrieved' > records_retrieved]_vars

(***************************************************************************)
(* C16.  A listing call with a non-success response has raised and has     *)
(* returned nothing, whatever the pages before it brought; until the       *)
(* response the call only fetches, and after it the call takes no step.    *)
(***************************************************************************)
HasFailed == \E i \in 1..Len(requests) : ~requests[i].ok

C16_FailureReturnsNothing ==
    /\ HasFailed => (pc = "raised" /\ ret = <<>>)
    /\ pc = "raised" => (HasFailed /\ ~requests[Len(requests)].ok)
    /\ pc = "returned" => ~HasFailed

\* the second page failed after a first page of 500 records
C16_Witness ==
    /\ pc = "raised"
    /\ Len(requests) = 2
    /\ requests[1].ok /\ ~requests[2].ok
    /\ Len(gz_records) = PAGE_LIMIT
    /\ ret = <<>>

=============================================================================
